---- MODULE Spec2Model ----
(***************************************************************************)
(* Model of the oxifoc six-step BLDC commutation core:                     *)
(*   device/src/motor/six_step.rs  CommutationStep (next, get_phase_states)*)
(*   device/src/motor/pwm.rs       MotorPwm (duty clamp, apply, stop)      *)
(*   device/src/motor/mod.rs       MotorController + published atomics     *)
(*   device/src/main.rs            motor_control_task, motor_command_server*)
(***************************************************************************)
EXTENDS Integers, Sequences, FiniteSets, TLC

VARIABLES
    MOTOR_STATE,            \* static AtomicU8, published motor state
    MOTOR_DUTY,             \* static AtomicU8, published duty
    MOTOR_STEP,             \* static AtomicU8, published step
    current_step,           \* MotorController.current_step
    target_duty,            \* MotorController.target_duty
    commutation_period_ms,  \* MotorController.commutation_period_ms
    max_duty_percent,       \* MotorPwmConfig.max_duty_percent
    max_duty,               \* MotorPwm.max_duty
    duty_limit,             \* MotorPwm.duty_limit
    ch_duty,                \* compare value of TIM1 channels Ch1..Ch3
    ch_enabled,             \* output enable of TIM1 channels Ch1..Ch3
    queue,                  \* MOTOR_CMD_CHANNEL contents
    pc,                     \* position of motor_control_task in its loop
    reply,                  \* last MotorStatus returned by motor_command_server
    last,                   \* history: last controller operation and its pre-state
    ticks_since_start,      \* history: ticks since the last Start, no command between
    first_pattern,          \* history: channel duties after the first of those ticks
    start_from,             \* history: step held when the last Start came, until a Running tick
    it_log,                 \* history: what the current loop iteration has done
    it_q0,                  \* history: queue at the command check of the iteration
    last_send,              \* history: the latest enqueue attempt since the command check
    tracked,                \* history: one accepted command followed through the queue
    DEVICE_STATE,           \* static AtomicU8, device link state
    LINK_ACTIVE,            \* static AtomicBool, set by the first info request
    main_pc,                \* position of main
    led,                    \* level of the status LED
    info_served             \* history: info requests served so far

ctrl_vars == <<MOTOR_STATE, MOTOR_DUTY, MOTOR_STEP, current_step, target_duty,
               commutation_period_ms, max_duty_percent, max_duty, duty_limit,
               ch_duty, ch_enabled>>
hist_vars == <<last, ticks_since_start, first_pattern, start_from>>
loop_vars == <<queue, pc, reply, it_log, it_q0, last_send>>
link_vars == <<DEVICE_STATE, LINK_ACTIVE, main_pc, led, info_served>>
vars == <<ctrl_vars, hist_vars, loop_vars, tracked, link_vars>>

----------------------------------------------------------------------------
(* Bounds of the model *)

\* ticks counted after a Start before the counter is switched off
MaxTicks == 7

\* duty arguments the commands carry (u8)
DutyInputs == {0, 1, 30, 50, 99, 100, 101, 150, 255}

\* duty arguments of the commands the transport delivers in the loop model
LoopDutyInputs == {50, 150}

\* timer resolutions (pwm.get_max_duty()) and configured ceilings tried
MaxDutyChoices == {0, 1, 99, 4250, 65535}
PercentChoices == {0, 1, 15, 99, 100}

----------------------------------------------------------------------------
(* Integer helpers *)

Min(a, b) == IF a <= b THEN a ELSE b

U16 == 65536

\* `x as u16`: truncation to 16 bits
as_u16(x) == x % U16

----------------------------------------------------------------------------
(* protocol/src/lib.rs *)

MotorStateT == {"Stopped", "Running", "Error"}

\* mutant of MotorState_as_u8: discriminants counted from 1
MotorState_as_u8_from_one(s) ==
    CASE s = "Stopped" -> 1
      [] s = "Running" -> 2
      [] s = "Error"   -> 3

\* `state as u8`: discriminants in declaration order
MotorState_as_u8(s) ==
    CASE s = "Stopped" -> 0
      [] s = "Running" -> 1
      [] s = "Error"   -> 2

CmdStop == [type |-> "Stop"]
CmdStart(d) == [type |-> "Start", duty |-> d]
CmdSetSpeed(d) == [type |-> "SetSpeed", duty |-> d]

CommandsOver(D) == {CmdStop} \cup {CmdStart(d) : d \in D} \cup {CmdSetSpeed(d) : d \in D}

----------------------------------------------------------------------------
(* device/src/motor/six_step.rs *)

CommutationStep == {"Step0", "Step1", "Step2", "Step3", "Step4", "Step5"}

\* mutant of next: the sequence stops at Step5 instead of wrapping
next_no_wrap(s) ==
    CASE s = "Step0" -> "Step1"
      [] s = "Step1" -> "Step2"
      [] s = "Step2" -> "Step3"
      [] s = "Step3" -> "Step4"
      [] s = "Step4" -> "Step5"
      [] s = "Step5" -> "Step5"

\* mutant of next: two steps swapped in the order
next_reordered(s) ==
    CASE s = "Step0" -> "Step1"
      [] s = "Step1" -> "Step3"
      [] s = "Step2" -> "Step4"
      [] s = "Step3" -> "Step2"
      [] s = "Step4" -> "Step5"
      [] s = "Step5" -> "Step0"

next(s) ==
    CASE s = "Step0" -> "Step1"
      [] s = "Step1" -> "Step2"
      [] s = "Step2" -> "Step3"
      [] s = "Step3" -> "Step4"
      [] s = "Step4" -> "Step5"
      [] s = "Step5" -> "Step0"

as_u8(s) ==
    CASE s = "Step0" -> 0
      [] s = "Step1" -> 1
      [] s = "Step2" -> 2
      [] s = "Step3" -> 3
      [] s = "Step4" -> 4
      [] s = "Step5" -> 5

\* mutant of get_phase_states: Step4 also enables phase B
get_phase_states_three_on(s) ==
    CASE s = "Step0" -> <<TRUE, TRUE, FALSE, TRUE, FALSE, FALSE>>
      [] s = "Step1" -> <<TRUE, FALSE, TRUE, TRUE, FALSE, FALSE>>
      [] s = "Step2" -> <<FALSE, TRUE, TRUE, FALSE, TRUE, FALSE>>
      [] s = "Step3" -> <<TRUE, TRUE, FALSE, FALSE, TRUE, FALSE>>
      [] s = "Step4" -> <<TRUE, TRUE, TRUE, FALSE, FALSE, TRUE>>
      [] s = "Step5" -> <<FALSE, TRUE, TRUE, FALSE, FALSE, TRUE>>

\* mutant of get_phase_states: Step3 drives A high instead of B
get_phase_states_wrong_high(s) ==
    CASE s = "Step0" -> <<TRUE, TRUE, FALSE, TRUE, FALSE, FALSE>>
      [] s = "Step1" -> <<TRUE, FALSE, TRUE, TRUE, FALSE, FALSE>>
      [] s = "Step2" -> <<FALSE, TRUE, TRUE, FALSE, TRUE, FALSE>>
      [] s = "Step3" -> <<TRUE, TRUE, FALSE, TRUE, FALSE, FALSE>>
      [] s = "Step4" -> <<TRUE, FALSE, TRUE, FALSE, FALSE, TRUE>>
      [] s = "Step5" -> <<FALSE, TRUE, TRUE, FALSE, FALSE, TRUE>>

\* <<ph_a_en, ph_b_en, ph_c_en, ph_a_high, ph_b_high, ph_c_high>>
get_phase_states(s) ==
    CASE s = "Step0" -> <<TRUE, TRUE, FALSE, TRUE, FALSE, FALSE>>
      [] s = "Step1" -> <<TRUE, FALSE, TRUE, TRUE, FALSE, FALSE>>
      [] s = "Step2" -> <<FALSE, TRUE, TRUE, FALSE, TRUE, FALSE>>
      [] s = "Step3" -> <<TRUE, TRUE, FALSE, FALSE, TRUE, FALSE>>
      [] s = "Step4" -> <<TRUE, FALSE, TRUE, FALSE, FALSE, TRUE>>
      [] s = "Step5" -> <<FALSE, TRUE, TRUE, FALSE, FALSE, TRUE>>

----------------------------------------------------------------------------
(* device/src/motor/pwm.rs *)

Channels == {"Ch1", "Ch2", "Ch3"}

DefaultMaxDutyPercent == 15

\* MotorPwm::new: duty_limit = (max_duty as u32 * max_duty_percent as u32 / 100) as u16
\* (a u16 times a u8 is below 2^32: the u32 product is exact)
compute_duty_limit(md, percent) == as_u16((md * percent) \div 100)

\* mutant of phase_duty: the configured ceiling is not applied
phase_duty_unlimited(md, limit, duty_percent) ==
    as_u16((md * Min(duty_percent, 100)) \div 100)

\* mutant of phase_duty: the requested percentage is not clamped to 100
phase_duty_unclamped(md, limit, duty_percent) ==
    Min(as_u16((md * duty_percent) \div 100), limit)

\* the value MotorPwm::set_phase_duty writes to the channel
phase_duty(md, limit, duty_percent) ==
    LET p    == Min(duty_percent, 100)
        duty == as_u16((md * p) \div 100)
    IN  Min(duty, limit)

set_phase_duty(duties, channel, duty_percent) ==
    [duties EXCEPT ![channel] = phase_duty(max_duty, duty_limit, duty_percent)]

disable_phase(duties, channel) == [duties EXCEPT ![channel] = 0]

\* mutant of apply_commutation: a phase that is not enabled is left as it was
apply_commutation_keep_disabled(duties, duty_percent, ph_a_en, ph_b_en, ph_c_en) ==
    LET d1 == IF ph_a_en THEN set_phase_duty(duties, "Ch1", duty_percent) ELSE duties
        d2 == IF ph_b_en THEN set_phase_duty(d1, "Ch2", duty_percent) ELSE d1
        d3 == IF ph_c_en THEN set_phase_duty(d2, "Ch3", duty_percent) ELSE d2
    IN  d3

apply_commutation(duties, duty_percent, ph_a_en, ph_b_en, ph_c_en) ==
    LET d1 == IF ph_a_en THEN set_phase_duty(duties, "Ch1", duty_percent)
                         ELSE disable_phase(duties, "Ch1")
        d2 == IF ph_b_en THEN set_phase_duty(d1, "Ch2", duty_percent)
                         ELSE disable_phase(d1, "Ch2")
        d3 == IF ph_c_en THEN set_phase_duty(d2, "Ch3", duty_percent)
                         ELSE disable_phase(d2, "Ch3")
    IN  d3

\* mutant of emergency_stop: the third channel is forgotten
emergency_stop_two(duties) ==
    disable_phase(disable_phase(duties, "Ch1"), "Ch2")

emergency_stop(duties) ==
    disable_phase(disable_phase(disable_phase(duties, "Ch1"), "Ch2"), "Ch3")

----------------------------------------------------------------------------
(* device/src/motor/mod.rs: published status *)

get_motor_state ==
    CASE MOTOR_STATE = 0 -> "Stopped"
      [] MOTOR_STATE = 1 -> "Running"
      [] OTHER           -> "Error"

get_motor_status ==
    [state |-> get_motor_state, duty |-> MOTOR_DUTY, step |-> MOTOR_STEP]

DefaultPeriodMs == 500

(* device/src/motor/mod.rs: MotorController *)

\* mutant of start: the duty is taken as given
start_unclamped(duty) ==
    /\ target_duty' = duty
    /\ MOTOR_DUTY' = duty
    /\ MOTOR_STATE' = MotorState_as_u8("Running")
    /\ current_step' = "Step0"
    /\ MOTOR_STEP' = 0
    /\ UNCHANGED <<commutation_period_ms, max_duty_percent, max_duty, duty_limit,
                   ch_duty, ch_enabled>>

\* mutant of start: the step is not reset
start_keep_step(duty) ==
    LET d == Min(duty, 100) IN
    /\ target_duty' = d
    /\ MOTOR_DUTY' = d
    /\ MOTOR_STATE' = MotorState_as_u8("Running")
    /\ UNCHANGED <<current_step, MOTOR_STEP, commutation_period_ms,
                   max_duty_percent, max_duty, duty_limit, ch_duty, ch_enabled>>

start(duty) ==
    LET d == Min(duty, 100) IN
    /\ target_duty' = d
    /\ MOTOR_DUTY' = d
    /\ MOTOR_STATE' = MotorState_as_u8("Running")
    /\ current_step' = "Step0"
    /\ MOTOR_STEP' = 0
    /\ UNCHANGED <<commutation_period_ms, max_duty_percent, max_duty, duty_limit,
                   ch_duty, ch_enabled>>

\* mutant of stop: the channels are left to the next tick
stop_deferred ==
    /\ target_duty' = 0
    /\ MOTOR_STATE' = MotorState_as_u8("Stopped")
    /\ MOTOR_DUTY' = 0
    /\ UNCHANGED <<MOTOR_STEP, current_step, commutation_period_ms,
                   max_duty_percent, max_duty, duty_limit, ch_duty, ch_enabled>>

\* mutant of stop: the published duty is left as it was
stop_keep_published_duty ==
    /\ target_duty' = 0
    /\ ch_duty' = emergency_stop(ch_duty)
    /\ MOTOR_STATE' = MotorState_as_u8("Stopped")
    /\ UNCHANGED <<MOTOR_DUTY, MOTOR_STEP, current_step, commutation_period_ms,
                   max_duty_percent, max_duty, duty_limit, ch_enabled>>

stop ==
    /\ target_duty' = 0
    /\ ch_duty' = emergency_stop(ch_duty)
    /\ MOTOR_STATE' = MotorState_as_u8("Stopped")
    /\ MOTOR_DUTY' = 0
    /\ UNCHANGED <<MOTOR_STEP, current_step, commutation_period_ms,
                   max_duty_percent, max_duty, duty_limit, ch_enabled>>

\* mutant of set_speed: the duty is added to the target instead of replacing it
set_speed_delta(duty) ==
    LET d == Min(target_duty + duty, 100) IN
    /\ target_duty' = d
    /\ MOTOR_DUTY' = d
    /\ UNCHANGED <<MOTOR_STATE, MOTOR_STEP, current_step, commutation_period_ms,
                   max_duty_percent, max_duty, duty_limit, ch_duty, ch_enabled>>

\* mutant of set_speed: the step is reset as start does
set_speed_reset_step(duty) ==
    LET d == Min(duty, 100) IN
    /\ target_duty' = d
    /\ MOTOR_DUTY' = d
    /\ current_step' = "Step0"
    /\ MOTOR_STEP' = 0
    /\ UNCHANGED <<MOTOR_STATE, commutation_period_ms,
                   max_duty_percent, max_duty, duty_limit, ch_duty, ch_enabled>>

\* mutant of set_speed: a nonzero duty also sets the motor running
set_speed_starts(duty) ==
    LET d == Min(duty, 100) IN
    /\ target_duty' = d
    /\ MOTOR_DUTY' = d
    /\ MOTOR_STATE' = IF d > 0 THEN MotorState_as_u8("Running") ELSE MOTOR_STATE
    /\ UNCHANGED <<MOTOR_STEP, current_step, commutation_period_ms,
                   max_duty_percent, max_duty, duty_limit, ch_duty, ch_enabled>>

set_speed(duty) ==
    LET d == Min(duty, 100) IN
    /\ target_duty' = d
    /\ MOTOR_DUTY' = d
    /\ UNCHANGED <<MOTOR_STATE, MOTOR_STEP, current_step, commutation_period_ms,
                   max_duty_percent, max_duty, duty_limit, ch_duty, ch_enabled>>

handle_command(cmd) ==
    CASE cmd.type = "Stop"     -> stop
      [] cmd.type = "Start"    -> start(cmd.duty)
      [] cmd.type = "SetSpeed" -> set_speed(cmd.duty)

\* mutant of commutate: the step is advanced before it is published
commutate_publish_after ==
    IF get_motor_state # "Running"
    THEN /\ ch_duty' = emergency_stop(ch_duty)
         /\ UNCHANGED <<MOTOR_STATE, MOTOR_DUTY, MOTOR_STEP, current_step,
                        target_duty, commutation_period_ms, max_duty_percent,
                        max_duty, duty_limit, ch_enabled>>
    ELSE LET ph == get_phase_states(current_step) IN
         /\ ch_duty' = apply_commutation(ch_duty, target_duty, ph[1], ph[2], ph[3])
         /\ current_step' = next(current_step)
         /\ MOTOR_STEP' = as_u8(current_step')
         /\ UNCHANGED <<MOTOR_STATE, MOTOR_DUTY, target_duty,
                        commutation_period_ms, max_duty_percent, max_duty,
                        duty_limit, ch_enabled>>

\* mutant of commutate: the step advances whatever the state
commutate_always_advance ==
    IF get_motor_state # "Running"
    THEN /\ ch_duty' = emergency_stop(ch_duty)
         /\ current_step' = next(current_step)
         /\ UNCHANGED <<MOTOR_STATE, MOTOR_DUTY, MOTOR_STEP,
                        target_duty, commutation_period_ms, max_duty_percent,
                        max_duty, duty_limit, ch_enabled>>
    ELSE LET ph == get_phase_states(current_step) IN
         /\ ch_duty' = apply_commutation(ch_duty, target_duty, ph[1], ph[2], ph[3])
         /\ MOTOR_STEP' = as_u8(current_step)
         /\ current_step' = next(current_step)
         /\ UNCHANGED <<MOTOR_STATE, MOTOR_DUTY, target_duty,
                        commutation_period_ms, max_duty_percent, max_duty,
                        duty_limit, ch_enabled>>

commutate ==
    IF get_motor_state # "Running"
    THEN /\ ch_duty' = emergency_stop(ch_duty)
         /\ UNCHANGED <<MOTOR_STATE, MOTOR_DUTY, MOTOR_STEP, current_step,
                        target_duty, commutation_period_ms, max_duty_percent,
                        max_duty, duty_limit, ch_enabled>>
    ELSE LET ph == get_phase_states(current_step) IN
         /\ ch_duty' = apply_commutation(ch_duty, target_duty, ph[1], ph[2], ph[3])
         /\ MOTOR_STEP' = as_u8(current_step)
         /\ current_step' = next(current_step)
         /\ UNCHANGED <<MOTOR_STATE, MOTOR_DUTY, target_duty,
                        commutation_period_ms, max_duty_percent, max_duty,
                        duty_limit, ch_enabled>>

\* mutant of get_commutation_period: the period shrinks as the duty grows
get_commutation_period_by_duty == (commutation_period_ms * (100 - target_duty)) \div 100

\* Duration::from_millis(self.commutation_period_ms as u64), in milliseconds
get_commutation_period == commutation_period_ms

set_commutation_period_ms(period_ms) ==
    /\ commutation_period_ms' = period_ms
    /\ UNCHANGED <<MOTOR_STATE, MOTOR_DUTY, MOTOR_STEP, current_step, target_duty,
                   max_duty_percent, max_duty, duty_limit, ch_duty, ch_enabled>>

----------------------------------------------------------------------------
(* History *)

Snapshot ==
    [state |-> get_motor_state, duty |-> MOTOR_DUTY, step |-> MOTOR_STEP,
     current_step |-> current_step, target_duty |-> target_duty,
     ch |-> ch_duty, start_from |-> start_from,
     enabled |-> ch_enabled, max_duty |-> max_duty, duty_limit |-> duty_limit,
     period |-> commutation_period_ms]

NoDuty == 0 - 1

ArgOf(cmd) == IF cmd.type = "Stop" THEN NoDuty ELSE cmd.duty

\* again: the operation before this command was the very same command
OpOf(cmd) == [op |-> cmd.type,
              duty |-> ArgOf(cmd),
              pre |-> Snapshot,
              again |-> (last.op = cmd.type /\ last.duty = ArgOf(cmd))]

OpNamed(name, arg) == [op |-> name, duty |-> arg, pre |-> Snapshot, again |-> FALSE]

\* history kept by a handled command
NoteCommand(cmd) ==
    /\ last' = OpOf(cmd)
    /\ ticks_since_start' = IF cmd.type = "Start" THEN 0 ELSE 0 - 1
    /\ first_pattern' = [c \in Channels |-> 0]
    /\ start_from' = IF cmd.type = "Start" THEN current_step ELSE start_from

\* history kept by a tick
NoteTick ==
    /\ last' = OpNamed("Tick", NoDuty)
    /\ ticks_since_start' =
          IF ticks_since_start >= 0 /\ ticks_since_start < MaxTicks
          THEN ticks_since_start + 1 ELSE 0 - 1
    /\ first_pattern' =
          IF ticks_since_start = 0 THEN ch_duty'
          ELSE IF ticks_since_start > 0 /\ ticks_since_start < MaxTicks
               THEN first_pattern
               ELSE [c \in Channels |-> 0]
    /\ start_from' = IF get_motor_state = "Running" THEN "none" ELSE start_from

\* the controller and status fields as a record
Controller ==
    [state |-> get_motor_state, duty |-> MOTOR_DUTY, step |-> MOTOR_STEP,
     current_step |-> current_step, target_duty |-> target_duty, ch |-> ch_duty]

NoSend == [sent |-> FALSE, q0 |-> <<>>, ctrl |-> Controller]

\* no accepted command is being followed
NoTrack == [on |-> "off", k |-> 0, seen |-> 0, cmd |-> CmdStop]

\* the followed command after one more command check of the loop: it was the
\* head when as many checks have passed as commands were queued before it
TrackIteration ==
    IF tracked.on = "queued"
    THEN [tracked EXCEPT !.seen = tracked.seen + 1,
                         !.on = IF tracked.seen = tracked.k THEN "done" ELSE "queued"]
    ELSE tracked

----------------------------------------------------------------------------
(* device/src/main.rs: device link state *)

DeviceStateT == {"Boot", "WaitingLink", "Linked", "Error"}

DeviceState_as_u8(s) ==
    CASE s = "Boot"        -> 0
      [] s = "WaitingLink" -> 1
      [] s = "Linked"      -> 2
      [] s = "Error"       -> 3

DeviceState_from_u8(b) ==
    CASE b = 0 -> "Boot"
      [] b = 1 -> "WaitingLink"
      [] b = 2 -> "Linked"
      [] OTHER -> "Error"

get_device_state == DeviceState_from_u8(DEVICE_STATE)

\* position of main; at: "boot" (before its first statement), "spawned" (the
\* tasks are spawned, none has run) or "await" (suspended in a Timer::after
\* of the LED loop: state is the device state the iteration read, k the
\* await of its blink pattern, rem the milliseconds left)
MainAt(at, state, k, rem) == [at |-> at, state |-> state, k |-> k, rem |-> rem]

\* the statics as initialised and main not yet started
LinkInit ==
    /\ DEVICE_STATE = DeviceState_as_u8("Boot")
    /\ LINK_ACTIVE = FALSE
    /\ main_pc = MainAt("boot", "Boot", 0, 0)
    /\ led = FALSE
    /\ info_served = 0

----------------------------------------------------------------------------
(* Construction: MotorPwm::new then MotorController::new *)

Init ==
    /\ max_duty \in MaxDutyChoices
    /\ max_duty_percent \in PercentChoices
    /\ duty_limit = compute_duty_limit(max_duty, max_duty_percent)
    /\ ch_duty = [c \in Channels |-> 0]
    /\ ch_enabled = [c \in Channels |-> TRUE]
    /\ MOTOR_STATE = MotorState_as_u8("Stopped")
    /\ MOTOR_DUTY = 0
    /\ MOTOR_STEP = 0
    /\ current_step = "Step0"
    /\ target_duty = 0
    /\ commutation_period_ms = DefaultPeriodMs
    /\ queue = <<>>
    /\ pc = "await"
    /\ reply = get_motor_status
    /\ ticks_since_start = 0 - 1
    /\ first_pattern = [c \in Channels |-> 0]
    /\ start_from = "none"
    /\ last = OpNamed("New", NoDuty)
    /\ it_log = <<>>
    /\ it_q0 = <<>>
    /\ last_send = NoSend
    /\ tracked = NoTrack
    /\ LinkInit

----------------------------------------------------------------------------
(* The controller driven directly through its interface *)

HandleCommand ==
    \E cmd \in CommandsOver(DutyInputs) :
        /\ handle_command(cmd)
        /\ NoteCommand(cmd)
        /\ UNCHANGED <<loop_vars, tracked, link_vars>>

Tick ==
    /\ commutate
    /\ NoteTick
    /\ UNCHANGED <<loop_vars, tracked, link_vars>>

Next == HandleCommand \/ Tick

Spec == Init /\ [][Next]_vars

----------------------------------------------------------------------------
(* The controller with its period setter, built as main builds it *)

\* period arguments tried (u32 milliseconds)
PeriodInputs == {1, 500, 1000}

SetCommutationPeriod ==
    \E p \in PeriodInputs :
        /\ set_commutation_period_ms(p)
        /\ last' = OpNamed("SetPeriod", p)
        /\ UNCHANGED <<ticks_since_start, first_pattern, start_from>>
        /\ UNCHANGED <<loop_vars, tracked, link_vars>>

NextPeriod == HandleCommand \/ Tick \/ SetCommutationPeriod

\* MotorController::init: MotorPwmConfig::default()
InitDefault ==
    /\ Init
    /\ max_duty_percent = DefaultMaxDutyPercent
    /\ max_duty = 4250

SpecPeriod == InitDefault /\ [][NextPeriod]_vars

----------------------------------------------------------------------------
(* The same operations applied to any controller and channel state: the     *)
(* channels may hold any compare value and the published state any of the   *)
(* three states when an operation begins.                                    *)

ChannelValues == {0, duty_limit, max_duty}

InitAnyState ==
    /\ max_duty \in MaxDutyChoices
    /\ max_duty_percent \in PercentChoices
    /\ duty_limit = compute_duty_limit(max_duty, max_duty_percent)
    /\ ch_duty \in [Channels -> ChannelValues]
    /\ ch_enabled = [c \in Channels |-> TRUE]
    /\ MOTOR_STATE \in {MotorState_as_u8(m) : m \in MotorStateT}
    /\ MOTOR_DUTY \in {0, 50}
    /\ current_step \in CommutationStep
    /\ MOTOR_STEP = as_u8(current_step)
    /\ target_duty \in {0, 50, 100}
    /\ commutation_period_ms = DefaultPeriodMs
    /\ queue = <<>>
    /\ pc = "await"
    /\ reply = get_motor_status
    /\ ticks_since_start = 0 - 1
    /\ first_pattern = [c \in Channels |-> 0]
    /\ start_from = "none"
    /\ last = OpNamed("New", NoDuty)
    /\ it_log = <<>>
    /\ it_q0 = <<>>
    /\ last_send = NoSend
    /\ tracked = NoTrack
    /\ LinkInit

SpecAnyState == InitAnyState /\ [][Tick]_vars

----------------------------------------------------------------------------
(* MotorPwm on its own: apply_commutation and emergency_stop called with    *)
(* any arguments, the channels holding any compare value beforehand.        *)

\* duty_percent arguments tried (u8)
PwmDutyInputs == {0, 1, 50, 150, 255}

InitPwm ==
    /\ max_duty \in MaxDutyChoices
    /\ max_duty_percent \in PercentChoices
    /\ duty_limit = compute_duty_limit(max_duty, max_duty_percent)
    /\ ch_duty \in [Channels -> ChannelValues]
    /\ ch_enabled = [c \in Channels |-> TRUE]
    /\ MOTOR_STATE = MotorState_as_u8("Stopped")
    /\ MOTOR_DUTY = 0
    /\ MOTOR_STEP = 0
    /\ current_step = "Step0"
    /\ target_duty = 0
    /\ commutation_period_ms = DefaultPeriodMs
    /\ queue = <<>>
    /\ pc = "await"
    /\ reply = get_motor_status
    /\ ticks_since_start = 0 - 1
    /\ first_pattern = [c \in Channels |-> 0]
    /\ start_from = "none"
    /\ last = OpNamed("New", NoDuty)
    /\ it_log = <<>>
    /\ it_q0 = <<>>
    /\ last_send = NoSend
    /\ tracked = NoTrack
    /\ LinkInit

pwm_frame == <<MOTOR_STATE, MOTOR_DUTY, MOTOR_STEP, current_step, target_duty,
               commutation_period_ms, max_duty_percent, max_duty, duty_limit,
               ch_enabled>>

PwmEmergencyStop ==
    /\ ch_duty' = emergency_stop(ch_duty)
    /\ last' = [op |-> "emergency_stop", duty |-> NoDuty, pre |-> Snapshot,
                again |-> (last.op = "emergency_stop")]
    /\ UNCHANGED <<pwm_frame, ticks_since_start, first_pattern, start_from, loop_vars,
                   tracked, link_vars>>

PwmApplyCommutation ==
    \E duty_percent \in PwmDutyInputs, a \in BOOLEAN, b \in BOOLEAN, c \in BOOLEAN :
        /\ ch_duty' = apply_commutation(ch_duty, duty_percent, a, b, c)
        /\ last' = [op |-> "apply_commutation", duty |-> duty_percent,
                    pre |-> Snapshot, again |-> FALSE, en |-> <<a, b, c>>]
        /\ UNCHANGED <<pwm_frame, ticks_since_start, first_pattern, start_from,
                       loop_vars, tracked, link_vars>>

NextPwm == PwmEmergencyStop \/ PwmApplyCommutation

SpecPwm == InitPwm /\ [][NextPwm]_vars

----------------------------------------------------------------------------
(* MotorPwm built with any u16 max_duty and any u8 max_duty_percent, above  *)
(* 100 included, and then driven as above.                                   *)

\* values of pwm.get_max_duty() tried (u16)
WideMaxDuty == {0, 1, 99, 100, 657, 4250, 65535}

\* values of max_duty_percent tried (u8)
WidePercents == {0, 1, 15, 100, 101, 200, 255}

\* max_duty as u32 * max_duty_percent as u32 / 100, before the cast to u16
duty_limit_u32(md, percent) == (md * percent) \div 100

InitWide ==
    /\ max_duty \in WideMaxDuty
    /\ max_duty_percent \in WidePercents
    /\ duty_limit = compute_duty_limit(max_duty, max_duty_percent)
    /\ ch_duty = [c \in Channels |-> 0]
    /\ ch_enabled = [c \in Channels |-> TRUE]
    /\ MOTOR_STATE = MotorState_as_u8("Stopped")
    /\ MOTOR_DUTY = 0
    /\ MOTOR_STEP = 0
    /\ current_step = "Step0"
    /\ target_duty = 0
    /\ commutation_period_ms = DefaultPeriodMs
    /\ queue = <<>>
    /\ pc = "await"
    /\ reply = get_motor_status
    /\ ticks_since_start = 0 - 1
    /\ first_pattern = [c \in Channels |-> 0]
    /\ start_from = "none"
    /\ last = OpNamed("New", NoDuty)
    /\ it_log = <<>>
    /\ it_q0 = <<>>
    /\ last_send = NoSend
    /\ tracked = NoTrack
    /\ LinkInit

SpecWide == InitWide /\ [][NextPwm]_vars

----------------------------------------------------------------------------
(* device/src/main.rs: the command channel, motor_control_task and          *)
(* motor_command_server on the single cooperative executor. pc = "await":   *)
(* the motor task is suspended (spawned and not yet polled, or in           *)
(* Timer::after), which is when other tasks run; pc = "commutate": it has   *)
(* done the command check of the iteration and not yet the commutation.     *)

QueueCapacity == 4

LoopCommands == CommandsOver(LoopDutyInputs)

\* mutant of try_send: a full channel drops its oldest command for the new one
try_send_drop_oldest(q, cmd) ==
    IF Len(q) < QueueCapacity THEN Append(q, cmd) ELSE Append(Tail(q), cmd)

\* mutant of try_send: the new command goes to the front of the channel
try_send_front(q, cmd) == IF Len(q) < QueueCapacity THEN <<cmd>> \o q ELSE q

\* Channel::try_send: Err(Full) and no change when the channel is full
try_send(q, cmd) == IF Len(q) < QueueCapacity THEN Append(q, cmd) ELSE q

\* mutant of ServerEnqueue: the server hands the command to the controller
\* itself and replies with the status that results
ServerEnqueue_handles_now ==
    /\ pc = "await"
    /\ \E cmd \in LoopCommands :
           /\ handle_command(cmd)
           /\ NoteCommand(cmd)
    /\ reply' = get_motor_status'
    /\ last_send' = [sent |-> TRUE, q0 |-> queue, ctrl |-> Controller]
    /\ UNCHANGED <<queue, pc, it_log, it_q0, tracked, link_vars>>

\* the closure motor_command_server serves: try_send, result dropped, then the
\* reply is the current status
ServerEnqueue ==
    /\ pc = "await"
    /\ \E cmd \in LoopCommands : queue' = try_send(queue, cmd)
    /\ reply' = get_motor_status
    /\ last_send' = [sent |-> TRUE, q0 |-> queue, ctrl |-> Controller]
    /\ UNCHANGED <<ctrl_vars, hist_vars, pc, it_log, it_q0, tracked, link_vars>>

\* mutant of LoopCheckCommand: a second queued command is taken and discarded
LoopCheckCommand_takes_two ==
    /\ pc = "await"
    /\ it_q0' = queue
    /\ IF queue # <<>>
       THEN /\ handle_command(Head(queue))
            /\ NoteCommand(Head(queue))
            /\ queue' = IF Len(queue) > 1 THEN Tail(Tail(queue)) ELSE Tail(queue)
            /\ it_log' = <<"handle">>
       ELSE /\ UNCHANGED <<ctrl_vars, hist_vars, queue>>
            /\ it_log' = <<>>
    /\ pc' = "commutate"
    /\ last_send' = [sent |-> FALSE, q0 |-> <<>>, ctrl |-> Controller']
    /\ tracked' = TrackIteration
    /\ UNCHANGED <<reply, link_vars>>

\* loop top: if let Ok(cmd) = cmd_receiver.try_receive() { motor.handle_command(&cmd) }
LoopCheckCommand ==
    /\ pc = "await"
    /\ it_q0' = queue
    /\ IF queue # <<>>
       THEN /\ handle_command(Head(queue))
            /\ NoteCommand(Head(queue))
            /\ queue' = Tail(queue)
            /\ it_log' = <<"handle">>
       ELSE /\ UNCHANGED <<ctrl_vars, hist_vars, queue>>
            /\ it_log' = <<>>
    /\ pc' = "commutate"
    /\ last_send' = [sent |-> FALSE, q0 |-> <<>>, ctrl |-> Controller']
    /\ tracked' = TrackIteration
    /\ UNCHANGED <<reply, link_vars>>

\* motor.commutate(); then get_commutation_period() and Timer::after(period).await
LoopCommutate ==
    /\ pc = "commutate"
    /\ commutate
    /\ NoteTick
    /\ it_log' = Append(it_log, "commutate")
    /\ pc' = "await"
    /\ last_send' = [sent |-> FALSE, q0 |-> <<>>, ctrl |-> Controller']
    /\ tracked' = IF tracked.on = "done" THEN NoTrack ELSE tracked
    /\ UNCHANGED <<queue, reply, it_q0, link_vars>>

NextLoop == ServerEnqueue \/ LoopCheckCommand \/ LoopCommutate

\* main builds the controller with MotorPwmConfig::default()
InitLoop == InitDefault

SpecLoop == InitLoop /\ [][NextLoop]_vars

----------------------------------------------------------------------------
(* The same loop and server, with one accepted command at a time followed   *)
(* from its acceptance to its handling.  The loop never stops: its only     *)
(* await is a timer, and every other task awaits in turn.                   *)

\* commands the transport sends here
FifoCommands == {CmdStop, CmdStart(50), CmdSetSpeed(150)}

\* motor_command_server's closure as in ServerEnqueue; an accepted command
\* may become the followed one, k being the commands queued before it
FifoEnqueue ==
    /\ pc = "await"
    /\ \E cmd \in FifoCommands, follow \in BOOLEAN :
           /\ queue' = try_send(queue, cmd)
           /\ tracked' = IF follow /\ tracked.on = "off" /\ Len(queue') > Len(queue)
                         THEN [on |-> "queued", k |-> Len(queue), seen |-> 0, cmd |-> cmd]
                         ELSE tracked
    /\ reply' = get_motor_status
    /\ last_send' = [sent |-> TRUE, q0 |-> queue, ctrl |-> Controller]
    /\ UNCHANGED <<ctrl_vars, hist_vars, pc, it_log, it_q0, link_vars>>

NextFifo == FifoEnqueue \/ LoopCheckCommand \/ LoopCommutate

SpecFifo ==
    /\ InitLoop
    /\ [][NextFifo]_vars
    /\ WF_vars(LoopCheckCommand)
    /\ WF_vars(LoopCommutate)

----------------------------------------------------------------------------
(* device/src/main.rs: main, its LED loop and info_server.  The executor is *)
(* cooperative: a spawned task runs only while main is suspended in an      *)
(* await, and the closure info_server serves has no await of its own.       *)

\* info requests served before the count stops
MaxInfoRequests == 3

\* milliseconds that pass in one step of time: divides every Timer::after of main
TimeStep == 20

\* the LED loop's arm for a device state: the LED level during each await of
\* the arm and the length of the await in milliseconds
blink_pattern(state) ==
    LET on(ms)  == [led |-> TRUE, ms |-> ms]
        off(ms) == [led |-> FALSE, ms |-> ms]
    IN  CASE state = "Boot" ->
               <<on(100), off(100), on(100), off(100), off(600)>>
          [] state = "WaitingLink" ->
               <<on(100), off(900)>>
          [] state = "Linked" ->
               <<on(500)>>
          [] state = "Error" ->
               <<on(120), off(120), on(120), off(120), on(120), off(120), off(800)>>

\* mutant of main_suspended: main also yields between the spawns and its
\* store of WaitingLink
main_suspended_at_spawn == main_pc.at \in {"await", "spawned"}

\* main is in an await: the only positions where the spawned tasks run
main_suspended == main_pc.at = "await"

link_frame == <<ctrl_vars, hist_vars, loop_vars, tracked>>

\* an iteration of the LED loop from its top to its first await, the device
\* state byte being b
led_iteration(b) ==
    LET state == DeviceState_from_u8(b)
        p     == blink_pattern(state)
    IN  /\ led' = p[1].led
        /\ main_pc' = MainAt("await", state, 1, p[1].ms)

\* main from its first statement to the last spawn
MainSpawnTasks ==
    /\ main_pc.at = "boot"
    /\ main_pc' = MainAt("spawned", "Boot", 0, 0)
    /\ UNCHANGED <<DEVICE_STATE, LINK_ACTIVE, led, info_served, link_frame>>

\* set_device_state(DeviceState::WaitingLink), then the LED loop is entered
MainSetWaitingLink ==
    /\ main_pc.at = "spawned"
    /\ DEVICE_STATE' = DeviceState_as_u8("WaitingLink")
    /\ led_iteration(DEVICE_STATE')
    /\ UNCHANGED <<LINK_ACTIVE, info_served, link_frame>>

\* time passes while main waits in Timer::after
TimePasses ==
    /\ main_pc.at = "await"
    /\ main_pc.rem > TimeStep
    /\ main_pc' = [main_pc EXCEPT !.rem = main_pc.rem - TimeStep]
    /\ UNCHANGED <<DEVICE_STATE, LINK_ACTIVE, led, info_served, link_frame>>

\* the timer fires: main goes on to the next await of the arm, or to the top
\* of the loop, where it reads the device state
MainResume ==
    /\ main_pc.at = "await"
    /\ main_pc.rem <= TimeStep
    /\ LET p == blink_pattern(main_pc.state)
           k == main_pc.k
       IN  IF k < Len(p)
           THEN /\ led' = p[k + 1].led
                /\ main_pc' = MainAt("await", main_pc.state, k + 1, p[k + 1].ms)
           ELSE led_iteration(DEVICE_STATE)
    /\ UNCHANGED <<DEVICE_STATE, LINK_ACTIVE, info_served, link_frame>>

\* info_server serves one request
InfoRequest ==
    /\ main_suspended
    /\ info_served < MaxInfoRequests
    /\ LINK_ACTIVE' = TRUE
    /\ DEVICE_STATE' = DeviceState_as_u8("Linked")
    /\ info_served' = info_served + 1
    /\ UNCHANGED <<main_pc, led, link_frame>>

NextLink == MainSpawnTasks \/ MainSetWaitingLink \/ TimePasses \/ MainResume \/ InfoRequest

InitLink == InitDefault

SpecLink == InitLink /\ [][NextLink]_vars

----------------------------------------------------------------------------
(* The controller one statement at a time, with a reader of the published   *)
(* status in another context.  Here pc counts the statements the operation  *)
(* in progress has executed (0: between operations), last is that           *)
(* operation, it_log holds the loads of a get_motor_status call in progress *)
(* and reply the status the latest finished call returned.                  *)

\* duty arguments tried (u8)
StoreDutyInputs == {30, 150}

\* one statement's effect on the controller, the channels and the statics
perform(st) ==
    /\ target_duty' = IF st.var = "target_duty" THEN st.val ELSE target_duty
    /\ current_step' = IF st.var = "current_step" THEN st.val ELSE current_step
    /\ MOTOR_STATE' = IF st.var = "MOTOR_STATE" THEN st.val ELSE MOTOR_STATE
    /\ MOTOR_DUTY' = IF st.var = "MOTOR_DUTY" THEN st.val ELSE MOTOR_DUTY
    /\ MOTOR_STEP' = IF st.var = "MOTOR_STEP" THEN st.val ELSE MOTOR_STEP
    /\ ch_duty' = IF st.var \in Channels
                  THEN [ch_duty EXCEPT ![st.var] = st.val] ELSE ch_duty
    /\ UNCHANGED <<commutation_period_ms, max_duty_percent, max_duty,
                   duty_limit, ch_enabled>>

\* mutant of start_stores: the duty is published as given
start_stores_unclamped(duty) ==
    << [var |-> "target_duty",  val |-> duty],
       [var |-> "MOTOR_DUTY",   val |-> duty],
       [var |-> "MOTOR_STATE",  val |-> MotorState_as_u8("Running")],
       [var |-> "current_step", val |-> "Step0"],
       [var |-> "MOTOR_STEP",   val |-> 0] >>

\* mutant of start_stores: the step is published before the duty
start_stores_step_first(duty) ==
    LET d == Min(duty, 100) IN
    << [var |-> "target_duty",  val |-> d],
       [var |-> "MOTOR_STEP",   val |-> 0],
       [var |-> "MOTOR_DUTY",   val |-> d],
       [var |-> "MOTOR_STATE",  val |-> MotorState_as_u8("Running")],
       [var |-> "current_step", val |-> "Step0"] >>

\* MotorController::start, statement by statement
start_stores(duty) ==
    LET d == Min(duty, 100) IN
    << [var |-> "target_duty",  val |-> d],
       [var |-> "MOTOR_DUTY",   val |-> d],
       [var |-> "MOTOR_STATE",  val |-> MotorState_as_u8("Running")],
       [var |-> "current_step", val |-> "Step0"],
       [var |-> "MOTOR_STEP",   val |-> 0] >>

\* MotorPwm::emergency_stop, statement by statement
emergency_stop_stores ==
    << [var |-> "Ch1", val |-> 0],
       [var |-> "Ch2", val |-> 0],
       [var |-> "Ch3", val |-> 0] >>

\* mutant of stop_stores: Stopped is published before the channels are zeroed
stop_stores_state_first ==
    << [var |-> "target_duty", val |-> 0],
       [var |-> "MOTOR_STATE", val |-> MotorState_as_u8("Stopped")] >>
    \o emergency_stop_stores
    \o << [var |-> "MOTOR_DUTY",  val |-> 0] >>

\* MotorController::stop, statement by statement
stop_stores ==
    << [var |-> "target_duty", val |-> 0] >>
    \o emergency_stop_stores
    \o << [var |-> "MOTOR_STATE", val |-> MotorState_as_u8("Stopped")],
          [var |-> "MOTOR_DUTY",  val |-> 0] >>

\* MotorController::set_speed, statement by statement
set_speed_stores(duty) ==
    LET d == Min(duty, 100) IN
    << [var |-> "target_duty", val |-> d],
       [var |-> "MOTOR_DUTY",  val |-> d] >>

\* MotorPwm::apply_commutation, statement by statement
apply_commutation_stores(duty_percent, ph_a_en, ph_b_en, ph_c_en) ==
    LET on == phase_duty(max_duty, duty_limit, duty_percent) IN
    << [var |-> "Ch1", val |-> IF ph_a_en THEN on ELSE 0],
       [var |-> "Ch2", val |-> IF ph_b_en THEN on ELSE 0],
       [var |-> "Ch3", val |-> IF ph_c_en THEN on ELSE 0] >>

\* MotorController::commutate, statement by statement.  The first statement
\* is the load of MOTOR_STATE; the controller is the only writer of it, so
\* the value loaded is the value the later statements still find.
commutate_stores ==
    << [var |-> "load MOTOR_STATE", val |-> 0] >>
    \o IF get_motor_state # "Running"
       THEN emergency_stop_stores
       ELSE LET ph == get_phase_states(current_step) IN
            apply_commutation_stores(target_duty, ph[1], ph[2], ph[3])
            \o << [var |-> "MOTOR_STEP",   val |-> as_u8(current_step)],
                  [var |-> "current_step", val |-> next(current_step)] >>

\* the statements of an operation
stores_of(o) ==
    CASE o.op = "Start"    -> start_stores(o.duty)
      [] o.op = "Stop"     -> stop_stores
      [] o.op = "SetSpeed" -> set_speed_stores(o.duty)
      [] o.op = "Tick"     -> commutate_stores

\* what reply holds once an end of an operation has passed
NoReply == [state |-> "Stopped", duty |-> 0, step |-> 0, span |-> TRUE, from |-> 0]

\* statement i of operation o; the first and the last statement are the
\* ends of the operation.  At an end a status call that is under way is
\* marked as reaching across it, and the status of a finished call is
\* forgotten: reply holds what was returned since the last end.
StoreStep(o, i) ==
    LET sts == stores_of(o)
        end == (i = 1 \/ i = Len(sts))
    IN  /\ perform(sts[i])
        /\ pc' = IF i = Len(sts) THEN 0 ELSE i
        /\ reply' = IF end THEN NoReply ELSE reply
        /\ it_log' = IF end /\ it_log # <<>>
                     THEN [it_log EXCEPT ![1] = TRUE, ![2] = 0] ELSE it_log
        /\ UNCHANGED <<ticks_since_start, first_pattern, start_from,
                       queue, it_q0, last_send, tracked, link_vars>>

\* handle_command or commutate is entered and its first statement runs
BeginOperation ==
    /\ pc = 0
    /\ \E o \in {OpOf(cmd) : cmd \in CommandsOver(StoreDutyInputs)}
                \cup {OpNamed("Tick", NoDuty)} :
           /\ last' = o
           /\ StoreStep(o, 1)

\* the next statement of the operation in progress runs
ContinueOperation ==
    /\ pc > 0
    /\ last' = last
    /\ StoreStep(last, pc + 1)

reader_frame == <<ctrl_vars, hist_vars, queue, pc, it_q0, last_send,
                  tracked, link_vars>>

\* get_motor_status: state: get_motor_state()
LoadState ==
    /\ it_log = <<>>
    /\ it_log' = <<FALSE, pc, get_motor_state>>
    /\ UNCHANGED <<reader_frame, reply>>

\* get_motor_status: duty: get_motor_duty()
LoadDuty ==
    /\ Len(it_log) = 3
    /\ it_log' = Append(it_log, MOTOR_DUTY)
    /\ UNCHANGED <<reader_frame, reply>>

\* get_motor_status: step: get_motor_step(), and the MotorStatus is returned.
\* span: an operation began or ended during the call or after it returned;
\* from: the value of pc at the first load
LoadStep ==
    /\ Len(it_log) = 4
    /\ reply' = [state |-> it_log[3], duty |-> it_log[4], step |-> MOTOR_STEP,
                 span |-> it_log[1], from |-> it_log[2]]
    /\ it_log' = <<>>
    /\ UNCHANGED reader_frame

NextStores == BeginOperation \/ ContinueOperation \/ LoadState \/ LoadDuty \/ LoadStep

InitStores ==
    /\ max_duty = 4250
    /\ max_duty_percent = DefaultMaxDutyPercent
    /\ duty_limit = compute_duty_limit(max_duty, max_duty_percent)
    /\ ch_duty = [c \in Channels |-> 0]
    /\ ch_enabled = [c \in Channels |-> TRUE]
    /\ MOTOR_STATE = MotorState_as_u8("Stopped")
    /\ MOTOR_DUTY = 0
    /\ MOTOR_STEP = 0
    /\ current_step = "Step0"
    /\ target_duty = 0
    /\ commutation_period_ms = DefaultPeriodMs
    /\ queue = <<>>
    /\ pc = 0
    /\ reply = [state |-> "Stopped", duty |-> 0, step |-> 0,
                span |-> FALSE, from |-> 0]
    /\ ticks_since_start = 0 - 1
    /\ first_pattern = [c \in Channels |-> 0]
    /\ start_from = "none"
    /\ last = OpNamed("New", NoDuty)
    /\ it_log = <<>>
    /\ it_q0 = <<>>
    /\ last_send = NoSend
    /\ tracked = NoTrack
    /\ LinkInit

SpecStores == InitStores /\ [][NextStores]_vars

----------------------------------------------------------------------------
(* Claims *)

AllChannelsZero == \A c \in Channels : ch_duty[c] = 0

\* C1: with max_duty_percent in 0..100, after any sequence of Start, SetSpeed,
\* Stop and ticks every channel duty is at most
\* max_duty * max_duty_percent / 100 (integer division).
C1_DutyCeiling ==
    max_duty_percent \in 0..100 =>
        \A c \in Channels : ch_duty[c] <= (max_duty * max_duty_percent) \div 100

\* a tick has driven a channel right at a nonzero ceiling although more was asked
C1_Witness ==
    /\ last.op = "Tick"
    /\ target_duty > max_duty_percent
    /\ (max_duty * max_duty_percent) \div 100 > 0
    /\ \E c \in Channels : ch_duty[c] = (max_duty * max_duty_percent) \div 100

\* C2: at the return of a Stop handled while Running the state is Stopped,
\* target_duty is 0, the status duty is 0 and all three channels are at 0.
C2_StopImmediate ==
    (last.op = "Stop" /\ last.pre.state = "Running") =>
        /\ get_motor_state = "Stopped"
        /\ target_duty = 0
        /\ get_motor_status.duty = 0
        /\ AllChannelsZero

\* a Stop was handled while Running with channels driven
C2_Witness ==
    /\ last.op = "Stop"
    /\ last.pre.state = "Running"
    /\ last.pre.target_duty > 0
    /\ \E c \in Channels : last.pre.ch[c] > 0

\* C4: Start{d} and SetSpeed{d} set target_duty and the status duty to d when
\* d <= 100 and to 100 when d > 100, for every d handled.
C4_DutyClamped ==
    last.op \in {"Start", "SetSpeed"} =>
        LET want == IF last.duty <= 100 THEN last.duty ELSE 100 IN
        /\ target_duty = want
        /\ get_motor_status.duty = want

\* Start{duty = 150} has been handled and the status duty reads 100
C4_Witness ==
    /\ last.op = "Start"
    /\ last.duty = 150
    /\ get_motor_status.duty = 100

\* C5: after a Start the state is Running and the internal and published step
\* are 0; the first Running tick after a Start drives phases A and B and floats
\* C (the pattern of Step0), whatever the step was before the Start.
C5_StartFromStep0 ==
    /\ last.op = "Start" =>
          /\ get_motor_state = "Running"
          /\ current_step = "Step0"
          /\ MOTOR_STEP = 0
    /\ (last.op = "Tick" /\ last.pre.state = "Running" /\ last.pre.start_from # "none") =>
          LET d == phase_duty(max_duty, duty_limit, target_duty) IN
          /\ ch_duty["Ch1"] = d
          /\ ch_duty["Ch2"] = d
          /\ ch_duty["Ch3"] = 0
          /\ MOTOR_STEP = 0

\* the first Running tick after a Start that came at Step3 has driven A and B
C5_Witness ==
    /\ last.op = "Tick"
    /\ last.pre.state = "Running"
    /\ last.pre.start_from = "Step3"
    /\ ch_duty["Ch1"] > 0
    /\ ch_duty["Ch3"] = 0

\* C6: SetSpeed handled while Running leaves the internal step, the published
\* step, the motor state and the channel duties as they were; the channels take
\* the new duty at a tick.
C6_SetSpeedKeepsStep ==
    /\ (last.op = "SetSpeed" /\ last.pre.state = "Running") =>
          /\ current_step = last.pre.current_step
          /\ MOTOR_STEP = last.pre.step
          /\ get_motor_state = "Running"
          /\ ch_duty = last.pre.ch
    /\ (last.op = "Tick" /\ last.pre.state = "Running") =>
          \A c \in Channels :
              ch_duty[c] \in {0, phase_duty(max_duty, duty_limit, last.pre.target_duty)}

\* SetSpeed changed the duty mid-sequence with channels driven at the old duty
C6_Witness ==
    /\ last.op = "SetSpeed"
    /\ last.pre.state = "Running"
    /\ last.pre.current_step = "Step3"
    /\ last.pre.target_duty # target_duty
    /\ \E c \in Channels :
          /\ ch_duty[c] > 0
          /\ ch_duty[c] # phase_duty(max_duty, duty_limit, target_duty)

\* C3: a tick executed while the published state is not Running (Stopped or
\* Error) ends with all three channel duties at 0, whatever the channel duties
\* and target_duty were before it.
C3_IdleTickForcesOff ==
    (last.op = "Tick" /\ last.pre.state # "Running") => AllChannelsZero

\* a tick in state Error found all three channels driven and a target duty set
C3_Witness ==
    /\ last.op = "Tick"
    /\ last.pre.state = "Error"
    /\ last.pre.target_duty > 0
    /\ \A c \in Channels : last.pre.ch[c] > 0
    /\ AllChannelsZero

\* the channel duties a tick leaves for the pattern with enables a, b, c
PatternDuties(a, b, c, d) ==
    [ch \in Channels |->
        IF (ch = "Ch1" /\ a) \/ (ch = "Ch2" /\ b) \/ (ch = "Ch3" /\ c) THEN d ELSE 0]

\* C7 as stated: after Start{duty = 50} and exactly six ticks the controller is
\* at step 0 and the channels hold the pattern they held after the first tick.
C7_Original ==
    (ticks_since_start = 6 /\ target_duty = 50) =>
        /\ current_step = "Step0"
        /\ ch_duty = first_pattern

\* C7 amended: after Start{duty = 50} and exactly six ticks the internal step is
\* Step0 again, the published step is 5 and the channels hold the pattern of
\* Step5 (B and C driven, A floating); the pattern left by the first tick (A and
\* B driven, C floating) is back on the channels after the seventh tick.
C7_SixTicksWrap ==
    LET d == phase_duty(max_duty, duty_limit, 50) IN
    /\ (ticks_since_start = 1 /\ target_duty = 50) =>
          first_pattern = PatternDuties(TRUE, TRUE, FALSE, d)
    /\ (ticks_since_start = 6 /\ target_duty = 50) =>
          /\ current_step = "Step0"
          /\ MOTOR_STEP = 5
          /\ ch_duty = PatternDuties(FALSE, TRUE, TRUE, d)
    /\ (ticks_since_start = 7 /\ target_duty = 50) =>
          /\ current_step = "Step1"
          /\ MOTOR_STEP = 0
          /\ ch_duty = first_pattern

\* seven ticks after Start{duty = 50} the channels are driven as after the first
C7_Witness ==
    /\ ticks_since_start = 7
    /\ target_duty = 50
    /\ ch_duty["Ch1"] > 0
    /\ ch_duty = first_pattern

EnableCount(s) == Cardinality({i \in 1..3 : get_phase_states(s)[i]})

\* C8: for every commutation step, get_phase_states has exactly two of the three
\* enable flags true and one false.
C8_TwoOfThreeEnabled ==
    /\ \A s \in CommutationStep :
          /\ EnableCount(s) = 2
          /\ Cardinality({i \in 1..3 : ~get_phase_states(s)[i]}) = 1
    /\ (last.op = "Tick" /\ last.pre.state = "Running"
            /\ phase_duty(max_duty, duty_limit, target_duty) > 0) =>
          Cardinality({c \in Channels : ch_duty[c] > 0}) = 2

\* a Running tick at Step4 has left exactly two channels driven
C8_Witness ==
    /\ last.op = "Tick"
    /\ last.pre.state = "Running"
    /\ last.pre.current_step = "Step4"
    /\ Cardinality({c \in Channels : ch_duty[c] > 0}) = 2

RECURSIVE next_times(_, _)
next_times(n, s) == IF n = 0 THEN s ELSE next_times(n - 1, next(s))

\* C9: next(s).as_u8() = (s.as_u8() + 1) mod 6 for every step; next applied i
\* times to Step0 gives step number i mod 6; next applied six times to any step
\* gives that step.
C9_NextIsPlusOneMod6 ==
    /\ \A s \in CommutationStep : as_u8(next(s)) = (as_u8(s) + 1) % 6
    /\ \A i \in 0..(2 * MaxTicks) : as_u8(next_times(i, "Step0")) = i % 6
    /\ \A s \in CommutationStep : next_times(6, s) = s
    /\ ticks_since_start >= 0 => as_u8(current_step) = ticks_since_start % 6

\* the controller has stepped from Step5 round to Step0, six ticks after a Start
C9_Witness ==
    /\ last.op = "Tick"
    /\ last.pre.current_step = "Step5"
    /\ current_step = "Step0"
    /\ ticks_since_start = 6

\* C10: each iteration of the motor control loop removes at most one command
\* from the queue, never waits for one, and handles it before the commutation
\* of that iteration; with an empty queue the iteration handles nothing and
\* still commutates.
C10_OneCommandPerIteration ==
    /\ pc = "await" => ENABLED LoopCheckCommand
    /\ pc = "commutate" =>
          IF it_q0 = <<>>
          THEN it_log = <<>> /\ queue = <<>>
          ELSE /\ it_log = <<"handle">>
               /\ queue = Tail(it_q0)
               /\ last.op = Head(it_q0).type
    /\ (pc = "await" /\ it_log # <<>>) =>
          /\ it_log = IF it_q0 = <<>> THEN <<"commutate">>
                                      ELSE <<"handle", "commutate">>
          /\ last.op = "Tick"
          /\ Len(it_q0) <= QueueCapacity

\* an iteration that found three commands queued has handled one, commutated,
\* and left the other two in the queue
C10_Witness ==
    /\ pc = "await"
    /\ Len(it_q0) = 3
    /\ it_log = <<"handle", "commutate">>
    /\ queue = Tail(it_q0)

\* C12: the Error motor state is never published: after any sequence of
\* commands and ticks from construction the state read is Stopped or Running.
C12_ErrorUnreachable ==
    /\ get_motor_state \in {"Stopped", "Running"}
    /\ get_motor_state # "Error"
    /\ MOTOR_STATE \in {0, 1}

\* the controller has been started, has run and has been stopped again
C12_Witness ==
    /\ last.op = "Stop"
    /\ last.pre.state = "Running"
    /\ last.pre.step = 4
    /\ get_motor_state = "Stopped"

\* C18: a tick executed while Running applies the enables of the pre-tick
\* internal step with target_duty, publishes the number of that pre-tick step
\* and advances the internal step by one modulo 6, so the published step is
\* (internal step - 1) mod 6 right after it.
C18_RunningTick ==
    (last.op = "Tick" /\ last.pre.state = "Running") =>
        LET ph == get_phase_states(last.pre.current_step)
            d  == phase_duty(max_duty, duty_limit, last.pre.target_duty)
        IN  /\ ch_duty = PatternDuties(ph[1], ph[2], ph[3], d)
            /\ target_duty = last.pre.target_duty
            /\ MOTOR_STEP = as_u8(last.pre.current_step)
            /\ as_u8(current_step) = (as_u8(last.pre.current_step) + 1) % 6
            /\ MOTOR_STEP = (as_u8(current_step) + 5) % 6

\* a Running tick at Step5 has published 5 and wrapped the internal step to Step0
C18_Witness ==
    /\ last.op = "Tick"
    /\ last.pre.state = "Running"
    /\ last.pre.current_step = "Step5"
    /\ MOTOR_STEP = 5
    /\ current_step = "Step0"
    /\ ch_duty["Ch2"] > 0

\* the phases driven high, driven low and left floating, from the comments of
\* six_step.rs; phases A, B, C are positions 1, 2, 3 of the tuple
StepComment(s) ==
    CASE s = "Step0" -> [high |-> 1, low |-> 2, float |-> 3]
      [] s = "Step1" -> [high |-> 1, low |-> 3, float |-> 2]
      [] s = "Step2" -> [high |-> 2, low |-> 3, float |-> 1]
      [] s = "Step3" -> [high |-> 2, low |-> 1, float |-> 3]
      [] s = "Step4" -> [high |-> 3, low |-> 1, float |-> 2]
      [] s = "Step5" -> [high |-> 3, low |-> 2, float |-> 1]

\* C20: for every step exactly one of the two enabled phases has its high flag
\* true and the other has it false, the floating phase has enable and high
\* false, and the phases are those of the per-step comments.
C20_HighLowFloating ==
    \A s \in CommutationStep \cup {current_step, last.pre.current_step} :
        LET ph == get_phase_states(s)
            en(i) == ph[i]
            hi(i) == ph[i + 3]
            k == StepComment(s)
        IN  /\ Cardinality({i \in 1..3 : en(i) /\ hi(i)}) = 1
            /\ Cardinality({i \in 1..3 : en(i) /\ ~hi(i)}) = 1
            /\ Cardinality({i \in 1..3 : ~en(i) /\ ~hi(i)}) = 1
            /\ en(k.high) /\ hi(k.high)
            /\ en(k.low) /\ ~hi(k.low)
            /\ ~en(k.float) /\ ~hi(k.float)

\* a Running tick has applied Step3 (B+, A-, C floating): A and B driven, C at 0
C20_Witness ==
    /\ last.op = "Tick"
    /\ last.pre.state = "Running"
    /\ last.pre.current_step = "Step3"
    /\ get_phase_states(last.pre.current_step)[5]
    /\ ch_duty["Ch1"] > 0 /\ ch_duty["Ch2"] > 0 /\ ch_duty["Ch3"] = 0

ControllerOf(snap) ==
    [state |-> snap.state, duty |-> snap.duty, step |-> snap.step,
     current_step |-> snap.current_step, target_duty |-> snap.target_duty,
     ch |-> snap.ch]

\* C15: handling a command a second time in a row changes nothing: state,
\* target_duty, step, published status and channel duties are what the first
\* handling left.
C15_CommandsIdempotent ==
    (last.op \in {"Stop", "Start", "SetSpeed"} /\ last.again) =>
        Controller = ControllerOf(last.pre)

\* SetSpeed{30} was handled twice in a row while Running with channels driven
C15_Witness ==
    /\ last.op = "SetSpeed"
    /\ last.duty = 30
    /\ last.again
    /\ get_motor_state = "Running"
    /\ target_duty = 30
    /\ \E c \in Channels : ch_duty[c] > 0

StatusOf(c) == [state |-> c.state, duty |-> c.duty, step |-> c.step]

\* C11: the command queue never holds more than 4 commands; an enqueue attempt
\* made while it holds 4 does not block, returns the status like any other, and
\* leaves the queue contents, the controller and the published status as they
\* were: the new command is lost.
C11_FullQueueDrops ==
    /\ Len(queue) <= 4
    /\ pc = "await" => ENABLED ServerEnqueue
    /\ (last_send.sent /\ Len(last_send.q0) = 4) =>
          /\ queue = last_send.q0
          /\ Controller = last_send.ctrl
          /\ get_motor_status = StatusOf(last_send.ctrl)
          /\ reply = StatusOf(last_send.ctrl)
    /\ (last_send.sent /\ Len(last_send.q0) < 4) =>
          /\ Len(queue) = Len(last_send.q0) + 1
          /\ SubSeq(queue, 1, Len(last_send.q0)) = last_send.q0
          /\ Controller = last_send.ctrl

\* a command was offered to a queue of 4 while the motor was Running: the queue
\* is as before and the caller got the status
C11_Witness ==
    /\ last_send.sent
    /\ Len(last_send.q0) = 4
    /\ queue = last_send.q0
    /\ get_motor_state = "Running"
    /\ reply = get_motor_status

\* C13: emergency_stop sets all three channel duties to 0 from any prior channel
\* state, leaves every channel enabled and max_duty and duty_limit unchanged,
\* and a second call leaves the state the first call produced.
C13_EmergencyStop ==
    last.op = "emergency_stop" =>
        /\ AllChannelsZero
        /\ \A c \in Channels : ch_enabled[c]
        /\ ch_enabled = last.pre.enabled
        /\ max_duty = last.pre.max_duty
        /\ duty_limit = last.pre.duty_limit
        /\ emergency_stop(ch_duty) = ch_duty
        /\ last.again => ch_duty = last.pre.ch

\* emergency_stop was called with all three channels at max_duty
C13_Witness ==
    /\ last.op = "emergency_stop"
    /\ max_duty > 0
    /\ \A c \in Channels : last.pre.ch[c] = max_duty
    /\ AllChannelsZero

ChannelIndex(c) == CASE c = "Ch1" -> 1 [] c = "Ch2" -> 2 [] c = "Ch3" -> 3

\* C14: apply_commutation sets each enabled channel to
\* min(duty_limit, floor(max_duty * min(duty_percent, 100) / 100)) and each
\* disabled channel to 0, whatever the channels held before.
C14_ApplyCommutation ==
    last.op = "apply_commutation" =>
        LET p      == IF last.duty <= 100 THEN last.duty ELSE 100
            scaled == (max_duty * p) \div 100
            want   == IF scaled <= duty_limit THEN scaled ELSE duty_limit
        IN  \A c \in Channels :
                ch_duty[c] = IF last.en[ChannelIndex(c)] THEN want ELSE 0

\* apply_commutation(150, true, false, true) found all three channels at
\* max_duty and left Ch1 and Ch3 at the ceiling and Ch2 at 0
C14_Witness ==
    /\ last.op = "apply_commutation"
    /\ last.duty = 150
    /\ last.en = <<TRUE, FALSE, TRUE>>
    /\ \A c \in Channels : last.pre.ch[c] = max_duty
    /\ duty_limit > 0 /\ duty_limit < max_duty
    /\ ch_duty = [c \in Channels |-> IF c = "Ch2" THEN 0 ELSE duty_limit]

StatusInRange(s) ==
    /\ s.state \in MotorStateT
    /\ s.duty \in 0..100
    /\ s.step \in 0..5

\* C16: a get_motor_status call made at any point, between the statements of
\* a command handler or of a tick included, returns a state in
\* {Stopped, Running, Error}, a duty in 0..100 and a step in 0..5; so does a
\* call whose three loads are spread over several statements or operations.
C16_StatusInRange ==
    /\ StatusInRange(get_motor_status)
    /\ StatusInRange(reply)
    /\ Len(it_log) >= 3 => it_log[3] \in MotorStateT
    /\ Len(it_log) = 4 => it_log[4] \in 0..100

\* a call made wholly inside a Stop, after Stopped is published and before
\* the duty is cleared
C16_Witness ==
    /\ last.op = "Stop"
    /\ pc = 5
    /\ ~reply.span
    /\ reply.from = 5
    /\ reply.state = "Stopped"
    /\ reply.duty = 30
    /\ reply.step = 3

\* C17: state, duty and step are stored one by one.  While a Start is between
\* its duty store and its step store the published status pairs the duty of
\* the Start with the step from before the Start, and a get_motor_status call
\* made wholly within that span returns that pair; a call made wholly between
\* two operations returns the status the controller holds there.
C17_TornStart ==
    /\ (last.op = "Start" /\ pc \in 2..4) =>
          /\ MOTOR_DUTY = Min(last.duty, 100)
          /\ MOTOR_STEP = last.pre.step
          /\ (~reply.span /\ reply.from >= 2) =>
                /\ reply.duty = Min(last.duty, 100)
                /\ reply.step = last.pre.step
    /\ (pc = 0 /\ ~reply.span) =>
          /\ reply.from = 0
          /\ reply.state = get_motor_state
          /\ reply.duty = MOTOR_DUTY
          /\ reply.step = MOTOR_STEP

\* a call inside a Start returned the new duty with the step from before the
\* Start: neither the status before the Start (another duty) nor the status
\* after it (step 0)
C17_Witness ==
    /\ last.op = "Start"
    /\ pc \in 2..4
    /\ ~reply.span
    /\ reply.from >= 2
    /\ reply.duty = Min(last.duty, 100)
    /\ reply.duty # last.pre.duty
    /\ reply.step = last.pre.step
    /\ reply.step # 0
    /\ reply # [reply EXCEPT !.state = last.pre.state, !.duty = last.pre.duty,
                             !.step = last.pre.step]
    /\ reply # [reply EXCEPT !.state = "Running", !.step = 0]

\* C21: right after construction the controller is Stopped with target_duty 0
\* and internal step 0, and the status read is {Stopped, duty 0, step 0}.
C21_Constructed ==
    last.op = "New" =>
        /\ get_motor_state = "Stopped"
        /\ target_duty = 0
        /\ current_step = "Step0"
        /\ as_u8(current_step) = 0
        /\ get_motor_status = [state |-> "Stopped", duty |-> 0, step |-> 0]

\* the controller as main builds it, before any command or tick
C21_Witness ==
    /\ last.op = "New"
    /\ max_duty_percent = DefaultMaxDutyPercent
    /\ commutation_period_ms = DefaultPeriodMs
    /\ get_motor_status.state = "Stopped"
    /\ AllChannelsZero

\* C22: whenever the published state reads Stopped all three channel duties
\* are 0, between the statements of stop, start and commutate included.
C22_StoppedMeansOff ==
    get_motor_state = "Stopped" => AllChannelsZero

\* inside a stop that found channels driven: Stopped is published, the duty
\* is not yet cleared
C22_Witness ==
    /\ last.op = "Stop"
    /\ pc = 5
    /\ \E c \in Channels : last.pre.ch[c] > 0
    /\ get_motor_state = "Stopped"
    /\ MOTOR_DUTY > 0
    /\ AllChannelsZero

\* C24: at every point, between the three channel writes of apply_commutation
\* included, at most two of the three channels have a nonzero duty.
C24_AtMostTwoDriven ==
    Cardinality({c \in Channels : ch_duty[c] > 0}) <= 2

\* C25: a tick executed while the state is not Running changes nothing but
\* the channel duties: internal step, target_duty, period and the published
\* state, duty and step are as before the tick.
C25_IdleTickFrame ==
    (last.op = "Tick" /\ last.pre.state # "Running") =>
        /\ current_step = last.pre.current_step
        /\ target_duty = last.pre.target_duty
        /\ commutation_period_ms = last.pre.period
        /\ get_motor_state = last.pre.state
        /\ MOTOR_DUTY = last.pre.duty
        /\ MOTOR_STEP = last.pre.step
        /\ ch_enabled = last.pre.enabled
        /\ max_duty = last.pre.max_duty
        /\ duty_limit = last.pre.duty_limit

\* a Stopped tick at Step2 with a target duty set cleared driven channels
C25_Witness ==
    /\ last.op = "Tick"
    /\ last.pre.state = "Stopped"
    /\ last.pre.current_step = "Step2"
    /\ last.pre.target_duty = 50
    /\ \E c \in Channels : last.pre.ch[c] > 0
    /\ AllChannelsZero
    /\ current_step = "Step2"

\* C27: Start{duty} handled while Running keeps the state Running, sets
\* target_duty to min(duty, 100), resets the internal and the published step
\* to 0 whatever they were, and leaves the channel duties as they were.
C27_RestartWhileRunning ==
    (last.op = "Start" /\ last.pre.state = "Running") =>
        /\ get_motor_state = "Running"
        /\ target_duty = Min(last.duty, 100)
        /\ current_step = "Step0"
        /\ MOTOR_STEP = 0
        /\ ch_duty = last.pre.ch

\* a Start{150} while Running at internal step 4, with channels driven
C27_Witness ==
    /\ last.op = "Start"
    /\ last.duty = 150
    /\ last.pre.state = "Running"
    /\ last.pre.current_step = "Step4"
    /\ last.pre.step = 3
    /\ \E c \in Channels : ch_duty[c] > 0
    /\ current_step = "Step0"
    /\ target_duty = 100

\* C28: SetSpeed leaves the motor state as it was and makes target_duty and
\* the published duty min(duty, 100); while the state is Stopped the channels
\* are 0 after every command and tick, so they stay 0 until a Start.
C28_SetSpeedKeepsState ==
    /\ last.op = "SetSpeed" =>
          /\ get_motor_state = last.pre.state
          /\ target_duty = Min(last.duty, 100)
          /\ MOTOR_DUTY = Min(last.duty, 100)
          /\ ch_duty = last.pre.ch
    /\ (get_motor_state = "Stopped" /\ last.op \in {"SetSpeed", "Tick"}) =>
          AllChannelsZero

\* a tick after a SetSpeed handled while Stopped: the target duty is set,
\* the state is still Stopped and the channels are 0
C28_Witness ==
    /\ last.op = "Tick"
    /\ last.pre.state = "Stopped"
    /\ get_motor_state = "Stopped"
    /\ target_duty = 100
    /\ MOTOR_DUTY = 100
    /\ AllChannelsZero

\* C29: after construction and after each completed handle_command or tick
\* the published duty equals target_duty, and both are in 0..100.
C29_DutyPublished ==
    /\ MOTOR_DUTY = target_duty
    /\ target_duty \in 0..100
    /\ MOTOR_DUTY \in 0..100

\* a Stop has cleared a duty of 100 in both places
C29_Witness ==
    /\ last.op = "Stop"
    /\ last.pre.duty = 100
    /\ last.pre.target_duty = 100
    /\ MOTOR_DUTY = 0
    /\ target_duty = 0

\* C26: the command entry point of the transport only enqueues (or drops) the
\* command and reads the status: controller, channels and published status
\* are as before the call, and the reply is the status published before the
\* command is handled.
C26_ServerOnlyEnqueues ==
    last_send.sent =>
        /\ Controller = last_send.ctrl
        /\ reply = StatusOf(last_send.ctrl)
        /\ reply = get_motor_status
        /\ queue \in {last_send.q0} \cup {Append(last_send.q0, cmd) : cmd \in LoopCommands}
        /\ pc = "await"

\* a Start sent to an idle, Stopped controller that has ticked: the command
\* waits in the queue and the reply reports Stopped
C26_Witness ==
    /\ last_send.sent
    /\ last_send.q0 = <<>>
    /\ queue = <<CmdStart(50)>>
    /\ last.op = "Tick"
    /\ reply = [state |-> "Stopped", duty |-> 0, step |-> 0]
    /\ get_motor_state = "Stopped"

\* the followed command, while queued, sits where FIFO order puts it: behind
\* as many commands as were queued before it less the command checks since
C23_InOrder ==
    tracked.on = "queued" =>
        LET i == tracked.k - tracked.seen + 1 IN
        /\ tracked.k \in 0..(QueueCapacity - 1)
        /\ tracked.seen <= tracked.k
        /\ i \in 1..Len(queue)
        /\ queue[i] = tracked.cmd

\* the followed command is the one handled by the command check that comes
\* when k checks have passed, and it is then out of the queue
C23_HandledInTurn ==
    tracked.on = "done" =>
        /\ tracked.seen = tracked.k + 1
        /\ tracked.seen <= QueueCapacity
        /\ pc = "commutate"
        /\ it_log = <<"handle">>
        /\ Head(it_q0) = tracked.cmd
        /\ queue = Tail(it_q0)
        /\ last.op = tracked.cmd.type
        /\ last.duty = ArgOf(tracked.cmd)

\* C23: every command accepted into the queue is handled exactly once and in
\* FIFO order: accepted behind k commands (0 <= k <= 3) it is handled by the
\* (k+1)-th following loop iteration, and with a loop that keeps running it
\* is handled, after at most 4 iterations.
C23_FifoExactlyOnce ==
    /\ [](C23_InOrder /\ C23_HandledInTurn)
    /\ (tracked.on = "queued") ~> (tracked.on = "done")

\* a Stop accepted behind three commands has been handled by the fourth
\* command check after it
C23_Witness ==
    /\ tracked.on = "done"
    /\ tracked.k = 3
    /\ tracked.seen = 4
    /\ tracked.cmd = CmdStop
    /\ last.op = "Stop"
    /\ last.pre.state = "Running"

\* where the device state stands: Boot until main's store, WaitingLink from
\* then until the first info request, Linked from then on; never Error
C30_LinkStage ==
    /\ get_device_state \in {"Boot", "WaitingLink", "Linked"}
    /\ main_pc.at \in {"boot", "spawned"} => get_device_state = "Boot"
    /\ (main_pc.at = "await" /\ info_served = 0) => get_device_state = "WaitingLink"
    /\ info_served > 0 => (get_device_state = "Linked" /\ LINK_ACTIVE)
    /\ LINK_ACTIVE => get_device_state = "Linked"
    /\ main_pc.at = "await" => main_pc.state \in {"WaitingLink", "Linked"}

\* C30: the device link state only moves forward Boot -> WaitingLink -> Linked:
\* once an info request has set Linked it stays Linked (main's store of
\* WaitingLink comes before any store of Linked), and Error is never entered.
C30_LinkOnlyForward ==
    /\ []C30_LinkStage
    /\ [][DEVICE_STATE' >= DEVICE_STATE /\ DEVICE_STATE' <= DeviceState_as_u8("Linked")]_vars
    /\ [][get_device_state = "Linked" => get_device_state' = "Linked"]_vars

\* after two info requests main has read Linked at the top of its loop and
\* holds the LED on
C30_Witness ==
    /\ info_served = 2
    /\ get_device_state = "Linked"
    /\ main_pc.at = "await"
    /\ main_pc.state = "Linked"
    /\ led

\* C31: for every max_duty (u16), max_duty_percent (u8) and duty_percent (u8)
\* the duty set_phase_duty writes is at most max_duty; the limit is the u32
\* quotient max_duty * max_duty_percent / 100 cast to 16 bits, and for
\* max_duty_percent <= 100 it is at most max_duty and the cast loses nothing.
C31_DutyWithinMax ==
    /\ \A c \in Channels : ch_duty[c] <= max_duty
    /\ \A p \in PwmDutyInputs : phase_duty(max_duty, duty_limit, p) <= max_duty
    /\ duty_limit = duty_limit_u32(max_duty, max_duty_percent) % U16
    /\ max_duty_percent <= 100 =>
          /\ duty_limit <= max_duty
          /\ duty_limit_u32(max_duty, max_duty_percent) < U16
          /\ duty_limit = duty_limit_u32(max_duty, max_duty_percent)

\* max_duty 65535 with max_duty_percent 255: the quotient 167114 does not fit
\* 16 bits and the limit is 36042; a duty_percent of 255 was then written
C31_Witness ==
    /\ max_duty = 65535
    /\ max_duty_percent = 255
    /\ duty_limit_u32(max_duty, max_duty_percent) = 167114
    /\ duty_limit = 36042
    /\ last.op = "apply_commutation"
    /\ last.duty = 255
    /\ \E c \in Channels : ch_duty[c] = 36042

====
